---- MODULE Spec2Model ----
(***************************************************************************)
(* Model of the resume-analyzer service layer: analyze_resume              *)
(* (app/services/analyzer.py) and compare_resume_jd                        *)
(* (app/services/jd_matcher.py), with their response normalizers and the   *)
(* result validator.                                                       *)
(*                                                                         *)
(* A Python str is a sequence of tokens.  A token is a literal piece of    *)
(* text, [c |-> class, s |-> spelling, n |-> number]:                      *)
(*   sp " "   nl "\n"   lb "{"   rb "}"   comma ","                        *)
(*   fj  three backquotes and json      f3  three backquotes               *)
(*   key   the JSON member name and its colon, "<s>":                      *)
(*   int   the decimal literal of n          flt  n tenths, e.g. 50.7      *)
(*   nan NaN   inf Infinity   ninf -Infinity   true   null                 *)
(*   str   the JSON string literal "<s>"                                   *)
(*   list  a JSON array literal of n elements (s names the element kinds)  *)
(*   word  the prose word(s) s      bul  a bullet marker "- ", "* "        *)
(*   bulc  a bullet character alone, "-" or "*"                            *)
(*   num   the numbering marker "<n>."                                     *)
(*   lit   a string constant of the program (never part of a reply)        *)
(* Every character test the code makes is tabulated per token class below. *)
(* The replies of the model are built so that two neighbouring tokens stay *)
(* two literals: a word or number never touches another word or number.    *)
(*                                                                         *)
(* State of one request:                                                   *)
(*   flow           "analyze" (analyze_resume) or "match" (compare_resume_jd)*)
(*   api_key        settings.GEMINI_API_KEY is set                         *)
(*   resume_len, jd_len   len() of the texts handed in                     *)
(*   pc             start, calling, replied, failed, done                  *)
(*   calls          how often model.generate_content was called            *)
(*   response_text  the text of the reply                                  *)
(*   exc            str(e) of what GenerativeModel or generate_content     *)
(*                  raised, <<>> when nothing was raised                   *)
(*   parsed         what the normalizer parsed: [ok, v]                    *)
(*   fallback_used  analyzer.parse_gemini_response was called              *)
(*   validated      the outcome of validate_result_structure               *)
(*   result         the dictionary the request returns                     *)
(***************************************************************************)
EXTENDS Integers, Sequences, FiniteSets, TLC

VARIABLES flow, api_key, resume_len, jd_len, pc, calls, response_text,
          exc, parsed, fallback_used, validated, result

vars == <<flow, api_key, resume_len, jd_len, pc, calls, response_text,
          exc, parsed, fallback_used, validated, result>>

Tok(c, s, n) == [c |-> c, s |-> s, n |-> n]

SP == Tok("sp", " ", 0)
NL == Tok("nl", "\n", 0)
LB == Tok("lb", "{", 0)
RB == Tok("rb", "}", 0)
COMMA == Tok("comma", ",", 0)
FJ == Tok("fj", "fence json", 0)
F3 == Tok("f3", "fence", 0)
Key(s) == Tok("key", s, 0)
IntT(n) == Tok("int", "", n)
FltT(n) == Tok("flt", "", n)
StrT(s) == Tok("str", s, 0)
ListT(n, s) == Tok("list", s, n)
Word(s) == Tok("word", s, 0)
Bul(s) == Tok("bul", s, 0)
Num(n) == Tok("num", "", n)
LitT(s) == Tok("lit", s, 0)

(***************************************************************************)
(* Python values.  One record shape for every value so that any two can be *)
(* compared: kind, num (int value; float value in tenths; bool 0/1),       *)
(* text (the tokens of a str), items (of a list), fields (of a dict).      *)
(***************************************************************************)
NoFields == [k \in {} |-> 0]

V(kind, num, text, items, fields) ==
    [kind |-> kind, num |-> num, text |-> text, items |-> items, fields |-> fields]

PyInt(n) == V("int", n, <<>>, <<>>, NoFields)
PyFloat(n) == V("float", n, <<>>, <<>>, NoFields)
PyNaN == V("nan", 0, <<>>, <<>>, NoFields)
PyInf == V("inf", 0, <<>>, <<>>, NoFields)
PyNegInf == V("ninf", 0, <<>>, <<>>, NoFields)
PyBool(b) == V("bool", IF b THEN 1 ELSE 0, <<>>, <<>>, NoFields)
PyNone == V("null", 0, <<>>, <<>>, NoFields)
PyStr(toks) == V("str", 0, toks, <<>>, NoFields)
PyList(items) == V("list", 0, <<>>, items, NoFields)
PyDict(fields) == V("dict", 0, <<>>, <<>>, fields)
Lit(s) == PyStr(<<LitT(s)>>)

Put(f, k, v) == [x \in (DOMAIN f) \cup {k} |-> IF x = k THEN v ELSE f[x]]

(***************************************************************************)
(* str.strip, str.find, str.rfind, slicing, on token sequences.            *)
(***************************************************************************)
IsSpace(t) == t.c \in {"sp", "nl"}

RECURSIVE SkipWs(_, _)
SkipWs(s, i) == IF i <= Len(s) /\ IsSpace(s[i]) THEN SkipWs(s, i + 1) ELSE i

RECURSIVE SkipWsBack(_, _)
SkipWsBack(s, j) == IF j >= 1 /\ IsSpace(s[j]) THEN SkipWsBack(s, j - 1) ELSE j

Slice(s, i, j) == IF i > j THEN <<>> ELSE SubSeq(s, i, j)

\* a bullet marker is a bullet character and a blank; at the end of a stripped
\* string only the character is left
BareBullet(t) == Tok("bulc", IF t.s = "- " THEN "-" ELSE "*", 0)

Strip(s) ==
    LET core == Slice(s, SkipWs(s, 1), SkipWsBack(s, Len(s)))
    IN  IF core # <<>> /\ core[Len(core)].c = "bul"
        THEN Slice(core, 1, Len(core) - 1) \o <<BareBullet(core[Len(core)])>>
        ELSE core

\* s.find(c): the first position of a token of class c, 0 when there is none
Find(s, c) ==
    IF \E i \in 1..Len(s) : s[i].c = c
    THEN CHOOSE i \in 1..Len(s) : s[i].c = c /\ \A j \in 1..(i - 1) : s[j].c # c
    ELSE 0

\* s.rfind(c): the last position of a token of class c, 0 when there is none
RFind(s, c) ==
    IF \E i \in 1..Len(s) : s[i].c = c
    THEN CHOOSE i \in 1..Len(s) : s[i].c = c /\ \A j \in (i + 1)..Len(s) : s[j].c # c
    ELSE 0

(***************************************************************************)
(* json.loads on a token sequence.  The elements of an array literal:      *)
(* "int" is [1, ..., n]; "str" is ["skill1", ..., "skill<n>"]; "mix"       *)
(* cycles through an int, a string, null and true.                         *)
(***************************************************************************)
ListItem(s, i) ==
    CASE s = "int" -> PyInt(i)
      [] s = "str" -> PyStr(<<Word("skill"), IntT(i)>>)
      [] OTHER -> CASE i % 4 = 1 -> PyInt(i)
                    [] i % 4 = 2 -> PyStr(<<Word("skill"), IntT(i)>>)
                    [] i % 4 = 3 -> PyNone
                    [] OTHER -> PyBool(TRUE)

IsValueTok(t) ==
    t.c \in {"int", "flt", "nan", "inf", "ninf", "true", "false", "null", "str", "list"}

TokVal(t) ==
    CASE t.c = "int" -> PyInt(t.n)
      [] t.c = "flt" -> PyFloat(t.n)
      [] t.c = "nan" -> PyNaN
      [] t.c = "inf" -> PyInf
      [] t.c = "ninf" -> PyNegInf
      [] t.c = "true" -> PyBool(TRUE)
      [] t.c = "false" -> PyBool(FALSE)
      [] t.c = "str" -> IF t.s = "" THEN PyStr(<<>>) ELSE PyStr(<<Word(t.s)>>)
      [] t.c = "list" -> PyList([i \in 1..t.n |-> ListItem(t.s, i)])
      [] OTHER -> PyNone

ParseFail == [ok |-> FALSE, v |-> PyNone, nxt |-> 0]

RECURSIVE ParseValue(_, _), ParseMembers(_, _, _)
\* value := scalar | array literal | lb ws (members)? ws rb
ParseValue(s, i) ==
    IF i > Len(s) THEN ParseFail
    ELSE IF IsValueTok(s[i]) THEN [ok |-> TRUE, v |-> TokVal(s[i]), nxt |-> i + 1]
    ELSE IF s[i].c = "lb"
    THEN LET j == SkipWs(s, i + 1)
         IN  IF j <= Len(s) /\ s[j].c = "rb"
             THEN [ok |-> TRUE, v |-> PyDict(NoFields), nxt |-> j + 1]
             ELSE ParseMembers(s, j, NoFields)
    ELSE ParseFail

\* members := key ws value ws (comma ws members | rb); a repeated key keeps the last value
ParseMembers(s, i, acc) ==
    IF i > Len(s) \/ s[i].c # "key" THEN ParseFail
    ELSE LET r == ParseValue(s, SkipWs(s, i + 1))
         IN  IF ~r.ok THEN ParseFail
             ELSE LET acc2 == Put(acc, s[i].s, r.v)
                      j == SkipWs(s, r.nxt)
                  IN  IF j > Len(s) THEN ParseFail
                      ELSE IF s[j].c = "rb"
                      THEN [ok |-> TRUE, v |-> PyDict(acc2), nxt |-> j + 1]
                      ELSE IF s[j].c = "comma"
                      THEN ParseMembers(s, SkipWs(s, j + 1), acc2)
                      ELSE ParseFail

\* json.loads(s): [ok, v]; ok = FALSE stands for json.JSONDecodeError
Loads(s) ==
    LET r == ParseValue(s, SkipWs(s, 1))
    IN  IF r.ok /\ SkipWs(s, r.nxt) > Len(s)
        THEN [ok |-> TRUE, v |-> r.v]
        ELSE [ok |-> FALSE, v |-> PyNone]

(***************************************************************************)
(* Python conversions used by the validator.                               *)
(***************************************************************************)
Min(a, b) == IF a < b THEN a ELSE b
Max(a, b) == IF a > b THEN a ELSE b

\* isinstance(v, (int, float)): bool is a subclass of int, nan and inf are floats
IsNumber(v) == v.kind \in {"int", "bool", "float", "nan", "inf", "ninf"}

TypeName(v) ==
    CASE v.kind \in {"float", "nan", "inf", "ninf"} -> "float"
      [] v.kind = "null" -> "NoneType"
      [] OTHER -> v.kind

\* int(v) of a number: truncation toward zero; ValueError for nan, OverflowError for inf
ToInt(v) ==
    CASE v.kind \in {"int", "bool"} -> [ok |-> TRUE, n |-> v.num, exc |-> <<>>]
      [] v.kind = "float" ->
           [ok |-> TRUE, n |-> IF v.num >= 0 THEN v.num \div 10 ELSE -((-v.num) \div 10),
            exc |-> <<>>]
      [] v.kind = "nan" ->
           [ok |-> FALSE, n |-> 0, exc |-> <<LitT("cannot convert float NaN to integer")>>]
      [] OTHER ->
           [ok |-> FALSE, n |-> 0, exc |-> <<LitT("cannot convert float infinity to integer")>>]

\* a conversion that quotes a string again, as repr does
StrOfRepr(v) ==
    IF v.kind = "str" THEN PyStr(<<LitT("'")>> \o v.text \o <<LitT("'")>>) ELSE Lit("repr")

\* str(v)
StrOf(v) ==
    CASE v.kind = "str" -> v
      [] v.kind = "int" -> PyStr(<<IntT(v.num)>>)
      [] v.kind = "float" -> PyStr(<<FltT(v.num)>>)
      [] v.kind = "bool" -> Lit(IF v.num = 1 THEN "True" ELSE "False")
      [] v.kind = "null" -> Lit("None")
      [] v.kind = "nan" -> Lit("nan")
      [] v.kind = "inf" -> Lit("inf")
      [] v.kind = "ninf" -> Lit("-inf")
      [] OTHER -> Lit("repr of a container")

\* dict.get(k): None when the key is absent
Get(d, k) == IF k \in DOMAIN d THEN d[k] ELSE PyNone

(***************************************************************************)
(* jd_matcher.validate_result_structure                                    *)
(***************************************************************************)
ScoreMin == 0
ScoreMax == 100
MaxListItems == 20

\* the keys of category_scores, in the order the code iterates them
Categories ==
    <<"Technical Skills", "Experience", "Education", "Soft Skills", "Industry Knowledge">>

CategoryNames == {Categories[i] : i \in 1..Len(Categories)}

ListFields == {"matching_skills", "missing_skills", "recommendations"}

ZeroCategories == PyDict([c \in CategoryNames |-> PyInt(0)])

\* the default structure, also the body of error_response without its error key
DefaultMatch ==
    [k \in {"score", "category_scores"} \cup ListFields |->
        CASE k = "score" -> PyInt(0)
          [] k = "category_scores" -> ZeroCategories
          [] OTHER -> PyList(<<>>)]

\* min(100, max(0, n))
ClampScore(n) == Min(ScoreMax, Max(ScoreMin, n))

\* a score slot from its source value v (None when absent): [ok, n, exc]
ValidScore(v) ==
    IF IsNumber(v)
    THEN LET r == ToInt(v)
         IN  IF r.ok THEN [ok |-> TRUE, n |-> ClampScore(r.n), exc |-> <<>>] ELSE r
    ELSE [ok |-> TRUE, n |-> 0, exc |-> <<>>]

\* a list slot that keeps one element more
ValidListOneMore(v) ==
    IF v.kind = "list"
    THEN PyList([i \in 1..Min(Len(v.items), MaxListItems + 1) |-> StrOf(v.items[i])])
    ELSE PyList(<<>>)

\* [str(item) for item in v][:20] of a list, [] of anything else
ValidList(v) ==
    IF v.kind = "list"
    THEN PyList([i \in 1..Min(Len(v.items), MaxListItems) |-> StrOf(v.items[i])])
    ELSE PyList(<<>>)

\* a category loop that keeps whatever mapping the model supplied
ValidCategoriesUnfiltered(v) ==
    [ok |-> TRUE, v |-> IF v.kind = "dict" THEN v ELSE ZeroCategories, exc |-> <<>>]

\* the category loop: [ok, v, exc]
ValidCategories(v) ==
    IF v.kind # "dict" THEN [ok |-> TRUE, v |-> ZeroCategories, exc |-> <<>>]
    ELSE LET slot == [c \in CategoryNames |-> ValidScore(Get(v.fields, c))]
         IN  IF \E c \in CategoryNames : ~slot[c].ok
             THEN LET i == CHOOSE i \in 1..Len(Categories) :
                                 /\ ~slot[Categories[i]].ok
                                 /\ \A j \in 1..(i - 1) : slot[Categories[j]].ok
                  IN  [ok |-> FALSE, v |-> ZeroCategories, exc |-> slot[Categories[i]].exc]
             ELSE [ok |-> TRUE, v |-> PyDict([c \in CategoryNames |-> PyInt(slot[c].n)]),
                   exc |-> <<>>]

\* [raised, exc, val]: raised = TRUE when an exception leaves the function
validate_result_structure(r) ==
    IF r.kind # "dict"
    THEN [raised |-> TRUE, val |-> DefaultMatch,
          exc |-> <<LitT("'"), LitT(TypeName(r)), LitT("' object has no attribute 'get'")>>]
    ELSE LET d == r.fields
             sc == ValidScore(Get(d, "score"))
             cs == ValidCategories(Get(d, "category_scores"))
         IN  IF ~sc.ok THEN [raised |-> TRUE, val |-> DefaultMatch, exc |-> sc.exc]
             ELSE IF ~cs.ok THEN [raised |-> TRUE, val |-> DefaultMatch, exc |-> cs.exc]
             ELSE [raised |-> FALSE, exc |-> <<>>,
                   val |-> [k \in DOMAIN DefaultMatch |->
                              CASE k = "score" -> PyInt(sc.n)
                                [] k = "category_scores" -> cs.v
                                [] OTHER -> ValidList(Get(d, k))]]

(***************************************************************************)
(* Character facts of the tokens, as the regular expressions of            *)
(* jd_matcher.parse_text_response read them.  The prose words of the model *)
(* are: Python, learn, score (plain words); the headers Strengths:,        *)
(* Areas of Improvement:, Projects:, Courses:, Score:, Matching Skills:,   *)
(* Missing Skills:, Recommendations:, <category>:; and ## Career Roadmap.  *)
(***************************************************************************)
\* what is left of a key token after its name: the closing quote and the colon
QC == Tok("qc", "quote colon", 0)

IsNegative(t) == (t.c \in {"int", "flt"} /\ t.n < 0) \/ t.c = "ninf"

\* a negative number literal without its minus sign
Pos(t) == IF t.c = "ninf" THEN Tok("inf", "", 0) ELSE Tok(t.c, t.s, -t.n)

\* the literal starts with a character of \w
StartsWordChar(t) ==
    \/ t.c \in {"int", "flt"} /\ t.n >= 0
    \/ t.c \in {"num", "true", "false", "null", "nan", "inf"}
    \/ t.c = "word" /\ t.s # "## Career Roadmap"

\* the literal starts with one of - * and the bullet dot
StartsBulletChar(t) == t.c \in {"bul", "bulc"} \/ IsNegative(t)

\* the literal is \w+ and nothing else
AllWordChars(t) ==
    \/ t.c = "int" /\ t.n >= 0
    \/ t.c \in {"true", "false", "null", "nan", "inf"}
    \/ t.c = "word" /\ t.s \in {"Python", "learn", "score", "skill"}

\* \w+[:\s] matches at token k of s
WordThenDelim(s, k) ==
    \/ s[k].c = "word" /\ StartsWordChar(s[k]) /\ ~AllWordChars(s[k])
    \/ AllWordChars(s[k]) /\ k + 1 <= Len(s) /\ IsSpace(s[k + 1])

\* (\d+) matches at the start of the literal: [has, n]
LeadDigits(t) ==
    CASE t.c \in {"int", "num"} /\ t.n >= 0 -> [has |-> TRUE, n |-> t.n]
      [] t.c = "flt" /\ t.n >= 0 -> [has |-> TRUE, n |-> t.n \div 10]
      [] OTHER -> [has |-> FALSE, n |-> 0]

\* the literal ends, case-insensitively, with name followed by [:\s]*
EndsWithName(t, name) ==
    /\ t.c = "word"
    /\ \/ name = "score" /\ t.s \in {"Score:", "score"}
       \/ name = "matching skills" /\ t.s = "Matching Skills:"
       \/ name = "missing skills" /\ t.s = "Missing Skills:"
       \/ name = "recommendations" /\ t.s = "Recommendations:"
       \/ name \in CategoryNames /\ t.s = name \o ":"

\* name occurs in a key token, where the closing quote follows it
KeyHasName(t, name) ==
    /\ t.c = "key"
    /\ name = "recommendations"
    /\ t.s \in {"recommendations", "project_recommendations"}

AllNl(s, q) == \A k \in q..Len(s) : s[k].c = "nl"

\* re.search(name[:\s]*(\d+), s, IGNORECASE): [has, n] of the leftmost match
SearchNumberAfter(s, name) ==
    LET hit(i) == EndsWithName(s[i], name)
                  /\ SkipWs(s, i + 1) <= Len(s)
                  /\ LeadDigits(s[SkipWs(s, i + 1)]).has
    IN  IF \E i \in 1..Len(s) : hit(i)
        THEN LET i == CHOOSE i \in 1..Len(s) : hit(i) /\ \A j \in 1..(i - 1) : ~hit(j)
             IN  LeadDigits(s[SkipWs(s, i + 1)])
        ELSE [has |-> FALSE, n |-> 0]

\* re.search("score":\s*(\d+), s): [has, n] of the leftmost match
SearchJsonScore(s) ==
    LET hit(i) == s[i] = Key("score")
                  /\ SkipWs(s, i + 1) <= Len(s)
                  /\ LeadDigits(s[SkipWs(s, i + 1)]).has
    IN  IF \E i \in 1..Len(s) : hit(i)
        THEN LET i == CHOOSE i \in 1..Len(s) : hit(i) /\ \A j \in 1..(i - 1) : ~hit(j)
             IN  LeadDigits(s[SkipWs(s, i + 1)])
        ELSE [has |-> FALSE, n |-> 0]

(***************************************************************************)
(* jd_matcher.extract_section                                              *)
(***************************************************************************)
extract_section(text, section_name) ==
    LET opens(i) == EndsWithName(text[i], section_name) \/ KeyHasName(text[i], section_name)
    IN  IF ~\E i \in 1..Len(text) : opens(i) THEN <<>>
        ELSE LET i == CHOOSE i \in 1..Len(text) : opens(i) /\ \A j \in 1..(i - 1) : ~opens(j)
                 \* [:\s]* takes the blanks after a header; after a key it takes nothing
                 rest == IF text[i].c = "key"
                         THEN <<QC>> \o Slice(text, i + 1, Len(text))
                         ELSE Slice(text, SkipWs(text, i + 1), Len(text))
                 \* (?=\n\w+[:\s]|\n*$)
                 look(q) == \/ /\ q + 1 <= Len(rest)
                               /\ rest[q].c = "nl"
                               /\ WordThenDelim(rest, q + 1)
                            \/ AllNl(rest, q)
                 \* .*? stops at the first place the lookahead holds; the end of the
                 \* text is such a place
                 last == Len(rest) + 1
                 q == CHOOSE q \in 1..last :
                         (q = last \/ look(q)) /\ \A r \in 1..(q - 1) : ~look(r)
             IN  Strip(Slice(rest, 1, q - 1))

(***************************************************************************)
(* jd_matcher.extract_list_items                                           *)
(***************************************************************************)
MaxTextItems == 10
FallbackLines == 5

\* (?=\n[-*.]|\n\d+\.|\n\w+|\n*$) at token q of s
ItemEnd(s, q) ==
    \/ /\ q + 1 <= Len(s)
       /\ s[q].c = "nl"
       /\ (StartsBulletChar(s[q + 1]) \/ StartsWordChar(s[q + 1]))
    \/ AllNl(s, q)

\* a marker starts in token t.  Pattern "bullet" is [-*.]: a bullet, or the minus of
\* a number; pattern "number" is \d+\.: a numbering, or a float literal up to its point
IsMark(pattern, t) ==
    IF pattern = "bullet" THEN StartsBulletChar(t) ELSE t.c \in {"num", "flt"}

\* what a marker token leaves for the item: the number behind a minus sign, the
\* tenths digit of a float literal
MarkRest(pattern, t) ==
    CASE pattern = "bullet" /\ IsNegative(t) -> <<Pos(t)>>
      [] pattern = "number" /\ t.c = "flt" -> <<IntT((IF t.n < 0 THEN -t.n ELSE t.n) % 10)>>
      [] OTHER -> <<>>

\* re.findall(marker\s*(.+?)(?=...), s, DOTALL), each item stripped
RECURSIVE FindItems(_, _, _)
FindItems(s, pattern, cur) ==
    IF ~\E i \in cur..Len(s) : IsMark(pattern, s[i]) THEN <<>>
    ELSE LET i == CHOOSE i \in cur..Len(s) :
                      IsMark(pattern, s[i]) /\ \A j \in cur..(i - 1) : ~IsMark(pattern, s[j])
             head == MarkRest(pattern, s[i])
             p == IF head = <<>> THEN SkipWs(s, i + 1) ELSE i + 1
             look(q) == ItemEnd(s, q)
         IN  IF head = <<>> /\ p > Len(s)
             THEN \* nothing but blanks follows: .+? takes the last blank, if there is one
                  IF s[i].c = "bul" \/ i < Len(s) THEN <<PyStr(<<>>)>> ELSE <<>>
             ELSE LET from == IF head = <<>> THEN p + 1 ELSE p
                      last == Len(s) + 1
                      q == CHOOSE q \in from..last :
                              (q = last \/ look(q)) /\ \A r \in from..(q - 1) : ~look(r)
                  IN  <<PyStr(Strip(head \o Slice(s, p, q - 1)))>> \o FindItems(s, pattern, q)

\* text.split("\n")
RECURSIVE SplitLines(_)
SplitLines(s) ==
    LET i == Find(s, "nl")
    IN  IF i = 0 THEN <<s>>
        ELSE <<Slice(s, 1, i - 1)>> \o SplitLines(Slice(s, i + 1, Len(s)))

RECURSIVE NonEmptyStripped(_)
NonEmptyStripped(lines) ==
    IF lines = <<>> THEN <<>>
    ELSE (IF Strip(Head(lines)) = <<>> THEN <<>> ELSE <<Strip(Head(lines))>>)
         \o NonEmptyStripped(Tail(lines))

Take(s, n) == Slice(s, 1, Min(Len(s), n))

extract_list_items(text) ==
    LET found == FindItems(text, "bullet", 1) \o FindItems(text, "number", 1)
        lines == NonEmptyStripped(SplitLines(text))
        items == IF found = <<>>
                 THEN [i \in 1..Min(Len(lines), FallbackLines) |-> PyStr(lines[i])]
                 ELSE found
    IN  Take(items, MaxTextItems)

(***************************************************************************)
(* jd_matcher.parse_text_response                                          *)
(***************************************************************************)
SectionOf(field) ==
    CASE field = "matching_skills" -> "matching skills"
      [] field = "missing_skills" -> "missing skills"
      [] OTHER -> "recommendations"

parse_text_response(text) ==
    LET js == SearchJsonScore(text)
        score_match == IF js.has THEN js ELSE SearchNumberAfter(text, "score")
        cats == [c \in CategoryNames |-> PyInt(SearchNumberAfter(text, c).n)]
    IN  PyDict([k \in DOMAIN DefaultMatch |->
                  CASE k = "score" -> PyInt(score_match.n)
                    [] k = "category_scores" -> PyDict(cats)
                    [] OTHER ->
                         LET section == extract_section(text, SectionOf(k))
                         IN  IF section = <<>> THEN PyList(<<>>)
                             ELSE PyList(extract_list_items(section))])

(***************************************************************************)
(* jd_matcher.parse_gemini_response                                        *)
(***************************************************************************)
IsFence(t) == t.c \in {"fj", "f3"}

\* the slice that stops before the last brace
BraceSliceExclusive(text) ==
    LET json_str == Strip(text)
        start_idx == Find(json_str, "lb")
        end_idx == RFind(json_str, "rb")
    IN  IF json_str # <<>> /\ Head(json_str).c = "lb" /\ json_str[Len(json_str)].c = "rb"
        THEN json_str
        ELSE IF start_idx # 0 /\ end_idx # 0
        THEN Slice(json_str, start_idx, end_idx - 1)
        ELSE json_str

\* the candidate between the first brace and the last one when the stripped text
\* is not already brace to brace
BraceSlice(text) ==
    LET json_str == Strip(text)
        start_idx == Find(json_str, "lb")
        end_idx == RFind(json_str, "rb")
    IN  IF json_str # <<>> /\ Head(json_str).c = "lb" /\ json_str[Len(json_str)].c = "rb"
        THEN json_str
        ELSE IF start_idx # 0 /\ end_idx # 0
        THEN Slice(json_str, start_idx, end_idx)
        ELSE json_str

\* re.search(fence-json \s* ({.+?}) \s* fence, text, DOTALL): [has, group]
JdFenceMatch(text) ==
    LET close(p, q) == /\ text[q].c = "rb"
                       /\ SkipWs(text, q + 1) <= Len(text)
                       /\ IsFence(text[SkipWs(text, q + 1)])
        \* .+? takes at least one character between the braces
        hit(i) == /\ text[i].c = "fj"
                  /\ SkipWs(text, i + 1) <= Len(text)
                  /\ text[SkipWs(text, i + 1)].c = "lb"
                  /\ \E q \in (SkipWs(text, i + 1) + 2)..Len(text) : close(SkipWs(text, i + 1), q)
    IN  IF \E i \in 1..Len(text) : hit(i)
        THEN LET i == CHOOSE i \in 1..Len(text) : hit(i) /\ \A j \in 1..(i - 1) : ~hit(j)
                 p == SkipWs(text, i + 1)
                 q == CHOOSE q \in (p + 2)..Len(text) :
                         close(p, q) /\ \A r \in (p + 2)..(q - 1) : ~close(p, r)
             IN  [has |-> TRUE, group |-> Slice(text, p, q)]
        ELSE [has |-> FALSE, group |-> <<>>]

\* the value the normalizer returns; it raises nothing
Jd_parse_gemini_response(text) ==
    LET json_match == JdFenceMatch(text)
        fenced == Loads(json_match.group)
        bare == Loads(BraceSlice(text))
    IN  IF json_match.has /\ fenced.ok THEN fenced.v
        ELSE IF bare.ok THEN bare.v
        ELSE parse_text_response(text)

(***************************************************************************)
(* analyzer.parse_gemini_response: the heuristic line scan                 *)
(***************************************************************************)
\* the keys of the sections dictionary, in the order the code iterates them
Sections ==
    <<"strengths", "areas_of_improvement", "project_recommendations",
      "career_roadmap", "recommended_courses">>

AnListFields ==
    {"strengths", "areas_of_improvement", "project_recommendations", "recommended_courses"}

\* analyzer.py imports google.generativeai, settings and json at module level; the
\* only "import re" is local to analyze_resume, so the name re is unbound here
ReImported == FALSE

NameErrorRe == <<LitT("name 're' is not defined")>>

\* the sections one of whose keywords occurs in the lower-cased literal
KwSections(t) ==
    CASE t.c = "key" /\ t.s \in {Sections[i] : i \in 1..Len(Sections)} -> {t.s}
      [] t.c = "word" /\ t.s = "Strengths:" -> {"strengths"}
      [] t.c = "word" /\ t.s = "Areas of Improvement:" -> {"areas_of_improvement"}
      [] t.c = "word" /\ t.s = "Projects:" -> {"project_recommendations"}
      [] t.c = "word" /\ t.s = "## Career Roadmap" -> {"career_roadmap"}
      [] t.c = "word" /\ t.s \in {"Courses:", "learn"} -> {"recommended_courses"}
      [] OTHER -> {}

\* ":" in line or "#" in line or "." in line[:2]
HasDelimiter(line) ==
    \/ \E i \in 1..Len(line) :
          \/ line[i].c \in {"key", "qc"}
          \/ line[i].c = "word" /\ line[i].s \notin {"Python", "learn", "score", "skill", "Go", "text"}
    \/ /\ line # <<>>
       /\ \/ Head(line).c = "num" /\ Head(line).n <= 9
          \/ Head(line).c = "flt" /\ Head(line).n >= 0 /\ Head(line).n <= 99

\* the first section, in dictionary order, whose keyword the line holds; "" when
\* the line is no header
HeaderOf(line) ==
    LET is(k) == HasDelimiter(line) /\ \E i \in 1..Len(line) : Sections[k] \in KwSections(line[i])
    IN  IF \E k \in 1..Len(Sections) : is(k)
        THEN Sections[CHOOSE k \in 1..Len(Sections) : is(k) /\ \A j \in 1..(k - 1) : ~is(j)]
        ELSE ""

\* line.lstrip("- *.").strip(): the leading bullets and blanks go, and the minus
\* sign of a number that follows them
RECURSIVE LStripBullets(_)
LStripBullets(line) ==
    IF line = <<>> THEN <<>>
    ELSE IF Head(line).c \in {"bul", "bulc", "sp"} THEN LStripBullets(Tail(line))
    ELSE IF IsNegative(Head(line)) THEN <<Pos(Head(line))>> \o Tail(line)
    ELSE line

\* re.sub(r'^\d+\.', '', line).strip() of a line that starts with digits and a point
StripNumbering(line) ==
    IF Head(line).c = "flt"
    THEN <<IntT(Head(line).n % 10)>> \o Tail(line)
    ELSE Strip(Tail(line))

Append1(f, k, item) == [f EXCEPT ![k] = PyList(f[k].items \o <<item>>)]

\* the for loop over the lines: st = [cur, res, raised]
RECURSIVE ScanLines(_, _)
ScanLines(lines, st) ==
    IF lines = <<>> \/ st.raised THEN st
    ELSE LET line == Strip(Head(lines))
             hdr == HeaderOf(line)
         IN  IF line = <<>> THEN ScanLines(Tail(lines), st)
             ELSE IF hdr # "" THEN ScanLines(Tail(lines), [st EXCEPT !.cur = hdr])
             ELSE IF st.cur = "" THEN ScanLines(Tail(lines), st)
             \* startswith("- "): a bullet that ends the stripped line has lost its blank
             ELSE IF Head(line).c = "bul"
             THEN ScanLines(Tail(lines),
                     IF st.cur \in AnListFields
                     THEN [st EXCEPT !.res = Append1(st.res, st.cur, PyStr(Strip(LStripBullets(line))))]
                     ELSE st)
             \* elif re.match(...): the name re is looked up before anything else
             ELSE IF ~ReImported THEN [st EXCEPT !.raised = TRUE]
             ELSE IF Head(line).c = "num" \/ (Head(line).c = "flt" /\ Head(line).n >= 0)
             THEN ScanLines(Tail(lines),
                     IF st.cur \in AnListFields
                     THEN [st EXCEPT !.res = Append1(st.res, st.cur, PyStr(StripNumbering(line)))]
                     ELSE st)
             ELSE IF st.cur = "career_roadmap"
             THEN ScanLines(Tail(lines),
                     [st EXCEPT !.res["career_roadmap"] = PyStr(@.text \o line \o <<NL>>)])
             ELSE ScanLines(Tail(lines), st)

\* response_text.split("\n\n")
RECURSIVE SplitParagraphs(_)
SplitParagraphs(s) ==
    LET at(i) == s[i].c = "nl" /\ s[i + 1].c = "nl"
    IN  IF \E i \in 1..(Len(s) - 1) : at(i)
        THEN LET i == CHOOSE i \in 1..(Len(s) - 1) : at(i) /\ \A j \in 1..(i - 1) : ~at(j)
             IN  <<Slice(s, 1, i - 1)>> \o SplitParagraphs(Slice(s, i + 2, Len(s)))
        ELSE <<s>>

MinParagraphs == 5

\* the placeholder of strengths pasted for every field
PlaceholderPasted(field) == Lit("Could not extract strengths from analysis")

Placeholder(field) ==
    CASE field = "strengths" -> Lit("Could not extract strengths from analysis")
      [] field = "areas_of_improvement" ->
           Lit("Could not extract areas of improvement from analysis")
      [] field = "project_recommendations" ->
           Lit("Could not extract project recommendations from analysis")
      [] field = "career_roadmap" -> Lit("Could not extract career roadmap from analysis")
      [] OTHER -> Lit("Could not extract recommended courses from analysis")

\* not value: the empty list and the empty string are false
IsEmpty(v) == (v.kind = "list" /\ v.items = <<>>) \/ (v.kind = "str" /\ v.text = <<>>)

\* [raised, exc, val]
An_parse_gemini_response(text) ==
    LET init == [k \in AnListFields \cup {"career_roadmap", "raw_analysis"} |->
                    CASE k = "career_roadmap" -> PyStr(<<>>)
                      [] k = "raw_analysis" -> PyStr(text)
                      [] OTHER -> PyList(<<>>)]
        st == ScanLines(SplitLines(text), [cur |-> "", res |-> init, raised |-> FALSE])
        paragraphs == SplitParagraphs(text)
        nothing == \A i \in 1..Len(Sections) : IsEmpty(st.res[Sections[i]])
        placed == IF nothing /\ Len(paragraphs) >= MinParagraphs
                  THEN [k \in DOMAIN st.res |->
                          CASE k = "raw_analysis" -> st.res[k]
                            [] k = "career_roadmap" -> PyStr(paragraphs[4])
                            [] OTHER ->
                                 PyList(<<PyStr(paragraphs[
                                    CHOOSE i \in {1, 2, 3, 5} : Sections[i] = k])>>)]
                  ELSE st.res
        filled == [k \in DOMAIN placed |->
                     IF k = "raw_analysis" \/ ~IsEmpty(placed[k]) THEN placed[k]
                     ELSE IF k = "career_roadmap" THEN Placeholder(k)
                     ELSE PyList(<<Placeholder(k)>>)]
    IN  IF st.raised THEN [raised |-> TRUE, exc |-> NameErrorRe, val |-> init]
        ELSE [raised |-> FALSE, exc |-> <<>>, val |-> filled]

(***************************************************************************)
(* analyze_resume: the JSON path                                           *)
(***************************************************************************)
\* re.search(fence-json \s* ([\s\S]*?) \s* fence, text): [has, group]
AnFenceMatch(text) ==
    LET hit(i) == text[i].c = "fj" /\ \E j \in (i + 1)..Len(text) : IsFence(text[j])
    IN  IF \E i \in 1..Len(text) : hit(i)
        THEN LET i == CHOOSE i \in 1..Len(text) : hit(i) /\ \A k \in 1..(i - 1) : ~hit(k)
                 j == CHOOSE j \in (i + 1)..Len(text) :
                         IsFence(text[j]) /\ \A k \in (i + 1)..(j - 1) : ~IsFence(text[k])
             IN  [has |-> TRUE, group |-> Strip(Slice(text, i + 1, j - 1))]
        ELSE [has |-> FALSE, group |-> <<>>]

\* the string handed to json.loads
AnJsonCandidate(text) ==
    LET json_match == AnFenceMatch(text)
        json_str == Strip(IF json_match.has THEN json_match.group ELSE text)
        start_idx == Find(json_str, "lb")
        end_idx == RFind(json_str, "rb")
    IN  IF json_str # <<>> /\ Head(json_str).c = "lb" /\ json_str[Len(json_str)].c = "rb"
        THEN json_str
        ELSE IF start_idx # 0 /\ end_idx # 0
        THEN Slice(json_str, start_idx, end_idx)
        ELSE json_str

\* the loop over required_fields on a parsed dict
BackFill(d) ==
    [k \in (DOMAIN d) \cup {Sections[i] : i \in 1..Len(Sections)} |->
        IF k \in DOMAIN d THEN d[k]
        ELSE IF k = "career_roadmap" THEN Lit("No information provided")
        ELSE PyList(<<>>)]

(***************************************************************************)
(* The results the two handlers build on their error paths.                *)
(***************************************************************************)
AnResult(error, strengths, areas, roadmap) ==
    [k \in {"error"} \cup {Sections[i] : i \in 1..Len(Sections)} |->
        CASE k = "error" -> PyStr(error)
          [] k = "strengths" -> PyList(strengths)
          [] k = "areas_of_improvement" -> PyList(areas)
          [] k = "career_roadmap" -> PyStr(roadmap)
          [] OTHER -> PyList(<<>>)]

AnKeyMissing ==
    [AnResult(<<LitT("Gemini API key is not configured")>>,
              <<Lit("API key missing")>>, <<Lit("Configure Gemini API key")>>,
              <<LitT("Please configure the Gemini API key to get results")>>)
     EXCEPT !["project_recommendations"] = PyList(<<Lit("Set up proper API configuration")>>),
            !["recommended_courses"] = PyList(<<Lit("API configuration course")>>)]

AnConstructFailed(e) ==
    AnResult(<<LitT("Failed to create Gemini model: ")>> \o e, <<>>, <<>>,
             <<LitT("Error occurred during analysis setup")>>)

AnTooShort ==
    AnResult(<<LitT("Resume text is too short or couldn't be properly extracted")>>,
             <<Lit("Unable to analyze - resume text too short")>>,
             <<Lit("Provide a more complete resume")>>,
             <<LitT("Please provide a more detailed resume for analysis")>>)

AnApiError(e) ==
    AnResult(e, <<Lit("Error occurred during analysis")>>, <<Lit("Try again later")>>,
             <<LitT("Error occurred during analysis: ")>> \o e)

\* an error result that holds the message and nothing else
ErrorResponseBare(error) == [k \in {"error"} |-> PyStr(error)]

\* error_response with its error key set
ErrorResponse(error) ==
    [k \in {"error"} \cup DOMAIN DefaultMatch |->
        IF k = "error" THEN PyStr(error) ELSE DefaultMatch[k]]

(***************************************************************************)
(* What each handler does with the text the model replied.                 *)
(***************************************************************************)
\* analyze_resume after generate_content returned: loaded is json.loads' outcome,
\* fallback tells whether analyzer.parse_gemini_response was called
AnalyzeReply(text) ==
    LET outcome(loaded, custom) ==
            IF loaded.ok /\ loaded.v.kind = "dict"
            THEN [loaded |-> loaded, fallback |-> FALSE, result |-> BackFill(loaded.v.fields)]
            \* JSONDecodeError, or the TypeError of the back-fill on a value that is no dict
            ELSE [loaded |-> loaded, fallback |-> TRUE,
                  result |-> IF custom.raised THEN AnApiError(custom.exc) ELSE custom.val]
    IN  outcome(Loads(AnJsonCandidate(text)), An_parse_gemini_response(text))

\* compare_resume_jd after generate_content returned
CompareReply(text) ==
    LET outcome(value, checked) ==
            [parsed |-> value, validated |-> checked,
             result |-> IF checked.raised THEN ErrorResponse(checked.exc) ELSE checked.val]
        check(value) == outcome(value, validate_result_structure(value))
    IN  check(Jd_parse_gemini_response(text))

(***************************************************************************)
(* The replies the model can give: JSON documents, bare or fenced, with    *)
(* prose around them; single JSON values; texts of header, bullet,         *)
(* numbered and plain lines; blank-line separated paragraphs.              *)
(***************************************************************************)
MaxListLen == 22
MaxProse == 2
MaxLines == 3
MaxParagraphs == 6

TRUE_T == Tok("true", "", 0)
NULL_T == Tok("null", "", 0)
NAN_T == Tok("nan", "", 0)
INF_T == Tok("inf", "", 0)
NINF_T == Tok("ninf", "", 0)

\* one member of an object; no member when the value is absent
Member(k, v) == IF v = <<>> THEN <<>> ELSE <<<<Key(k), SP>> \o v>>

RECURSIVE JoinWith(_, _)
JoinWith(parts, sep) ==
    IF parts = <<>> THEN <<>>
    ELSE IF Len(parts) = 1 THEN Head(parts)
    ELSE Head(parts) \o sep \o JoinWith(Tail(parts), sep)

Object(members) == <<LB>> \o JoinWith(members, <<COMMA, SP>>) \o <<RB>>

ScoreChoices ==
    {<<>>, <<TRUE_T>>, <<NULL_T>>, <<StrT("text")>>, <<NAN_T>>, <<INF_T>>, <<NINF_T>>}
    \cup {<<IntT(n)>> : n \in {-5, ScoreMin, 50, ScoreMax, 105}}
    \cup {<<FltT(n)>> : n \in {-5, 507, 1005}}

ListChoices ==
    {<<>>, <<IntT(7)>>, <<ListT(2, "str")>>, <<ListT(2, "int")>>}
    \cup {<<ListT(n, "mix")>> : n \in {0, 1, 3, MaxListItems, MaxListItems + 1, MaxListLen}}

CategoryChoices ==
    {<<>>, <<IntT(3)>>, Object(<<>>),
     Object(Member("Technical Skills", <<IntT(200)>>)),
     Object(Member("Experience", <<IntT(-5)>>) \o Member("Bonus", <<IntT(9)>>)),
     Object(Member("Education", <<StrT("text")>>) \o Member("Soft Skills", <<FltT(707)>>)),
     Object(Member("Industry Knowledge", <<NAN_T>>)),
     Object(Member("Experience", <<TRUE_T>>)),
     Object(Member("Technical Skills", <<IntT(10)>>) \o Member("Experience", <<IntT(20)>>)
            \o Member("Education", <<IntT(30)>>) \o Member("Soft Skills", <<IntT(40)>>)
            \o Member("Industry Knowledge", <<IntT(50)>>))}

MatchDocs ==
    {Object(Member("score", sc) \o Member("matching_skills", ms) \o Member("category_scores", cs)) :
        sc \in ScoreChoices, ms \in ListChoices, cs \in CategoryChoices}
    \cup {Object(Member(f, l)) : f \in {"missing_skills", "recommendations"}, l \in ListChoices}

AnalyzeDocs ==
    {Object(Member("strengths", st) \o Member("career_roadmap", cr)
            \o Member("recommended_courses", rc) \o Member("raw_analysis", ra)) :
        st \in {<<>>, <<ListT(0, "str")>>, <<ListT(2, "str")>>, <<StrT("text")>>},
        cr \in {<<>>, <<StrT("text")>>, <<StrT("")>>, <<NULL_T>>},
        rc \in {<<>>, <<ListT(0, "str")>>},
        ra \in {<<>>, <<StrT("text")>>}}

\* the five categories with the scores given, in the order of Categories
FullCategories(scores) ==
    Object(JoinWith([i \in 1..Len(Categories) |-> Member(Categories[i], <<IntT(scores[i])>>)],
                    <<>>))

\* replies that hold every field of the match result
FullMatchDocs ==
    {Object(Member("score", sc) \o Member("matching_skills", ms)
            \o Member("missing_skills", <<ListT(0, "str")>>)
            \o Member("recommendations", <<ListT(1, "str")>>)
            \o Member("category_scores", cs)) :
        sc \in {<<IntT(ScoreMin)>>, <<IntT(50)>>, <<IntT(ScoreMax)>>, <<IntT(105)>>, <<FltT(507)>>},
        ms \in {<<ListT(2, "str")>>, <<ListT(3, "mix")>>, <<ListT(MaxListItems, "str")>>,
                <<ListT(MaxListItems + 1, "str")>>},
        cs \in {FullCategories(<<10, 20, 30, 40, 50>>), FullCategories(<<10, 200, 30, 40, 50>>)}}

\* replies that hold every field of the analysis result
FullAnalyzeDocs ==
    {Object(Member("strengths", st)
            \o Member("areas_of_improvement", <<ListT(1, "str")>>)
            \o Member("project_recommendations", <<ListT(3, "str")>>)
            \o Member("career_roadmap", cr)
            \o Member("recommended_courses", <<ListT(2, "str")>>)
            \o Member("raw_analysis", ra)) :
        st \in {<<ListT(0, "str")>>, <<ListT(2, "str")>>, <<ListT(3, "mix")>>},
        cr \in {<<StrT("text")>>, <<StrT("")>>},
        ra \in {<<>>, <<StrT("text")>>}}

ScalarDocs ==
    {<<IntT(5)>>, <<FltT(15)>>, <<ListT(2, "int")>>, <<NULL_T>>, <<TRUE_T>>, <<StrT("text")>>,
     <<NAN_T>>}

\* prose: up to MaxProse of a plain word, an opening brace, a closing brace, a
\* score line, each followed by a blank
ProseAlphabet == {<<Word("Python")>>, <<LB>>, <<RB>>, <<Word("Score:"), SP, IntT(85)>>}

ProseOf(most) ==
    UNION {{JoinWith([i \in 1..n |-> w[i] \o <<SP>>], <<>>) : w \in [1..n -> ProseAlphabet]} :
              n \in 0..most}

\* before the document up to MaxProse tokens, after it at most one
Prose == ProseOf(MaxProse)
PostProse == ProseOf(1)

\* the documents put into prose: two objects, an object that lost its closing
\* brace, and a word that is no JSON at all
WrappedDocs ==
    {Object(<<>>), Object(Member("score", <<IntT(5)>>) \o Member("strengths", <<ListT(2, "str")>>)),
     <<LB, Key("score"), SP, IntT(5)>>, <<Word("learn")>>}

Wrap(style, pre, doc, post) ==
    CASE style = "bare" -> pre \o doc \o <<SP>> \o post
      [] style = "fenced" -> pre \o <<FJ, NL>> \o doc \o <<NL, F3, SP>> \o post
      [] style = "tight" -> pre \o <<FJ>> \o doc \o <<F3, SP>> \o post
      [] OTHER -> <<FJ, NL, Word("Python"), NL, F3, NL>> \o pre
                  \o <<FJ, NL>> \o doc \o <<NL, F3, SP>> \o post

WrappedTexts ==
    {Wrap(style, pre, doc, post) :
        style \in {"bare", "fenced", "tight", "second"}, pre \in Prose, doc \in WrappedDocs,
        post \in PostProse}

LineKinds ==
    {<<>>, <<Word("Python")>>, <<Bul("- "), Word("Python")>>, <<Num(1), SP, Word("Python")>>,
     <<Word("Strengths:")>>, <<Word("## Career Roadmap")>>, <<Word("Matching Skills:")>>,
     <<Word("Score:"), SP, IntT(150)>>, <<Word("Technical Skills:"), SP, IntT(80)>>}

LineTexts ==
    UNION {{JoinWith(ls, <<NL>>) : ls \in [1..n -> LineKinds]} : n \in 1..MaxLines}

\* paragraph i of a text: empty, or the word Python and the number i; in the
\* kind "gap" the fourth paragraph is empty
ParagraphOf(kind, i) ==
    IF kind = "empty" \/ (kind = "gap" /\ i = 4) THEN <<>> ELSE <<Word("Python"), SP, IntT(i)>>

ParagraphTexts ==
    UNION {{JoinWith([i \in 1..n |-> ParagraphOf(kind, i)], <<NL, NL>>) :
                kind \in {"empty", "words", "gap"}} :
              n \in 1..MaxParagraphs}

ResponseTexts ==
    MatchDocs \cup FullMatchDocs \cup AnalyzeDocs \cup FullAnalyzeDocs \cup ScalarDocs
    \cup WrappedTexts \cup LineTexts \cup ParagraphTexts

\* what generate_content or GenerativeModel(...) raises, as str(e)
ProviderErrors == {<<LitT("quota exceeded")>>, <<LitT("connection timed out")>>}

(***************************************************************************)
(* The state machine: one request, analyze_resume or compare_resume_jd.    *)
(***************************************************************************)
MinTextLen == 50

\* a length check that lets a text of 49 characters through
TooShortBelow49(len) == len < MinTextLen - 1

\* len(text) < 50
TooShort(len) == len < MinTextLen

TextLens == {0, MinTextLen - 1, MinTextLen}

NotParsed == [ok |-> FALSE, v |-> PyNone]
NotValidated == [called |-> FALSE, raised |-> FALSE, exc |-> <<>>, val |-> DefaultMatch]

Init ==
    /\ flow \in {"analyze", "match"}
    /\ api_key \in BOOLEAN
    /\ resume_len \in TextLens
    /\ jd_len \in (IF flow = "match" THEN TextLens ELSE {0})
    /\ pc = "start"
    /\ calls = 0
    /\ response_text = <<>>
    /\ exc = <<>>
    /\ parsed = NotParsed
    /\ fallback_used = FALSE
    /\ validated = NotValidated
    /\ result = NoFields

\* analyze_resume up to the model call.  made is what GenerativeModel(...) does
\* when it is reached: <<>> when it returns, else the message of what it raises
AnalyzeStart ==
    /\ pc = "start"
    /\ flow = "analyze"
    /\ \E made \in {<<>>} \cup ProviderErrors :
          IF ~api_key
          THEN /\ made = <<>>
               /\ result' = AnKeyMissing
               /\ pc' = "done"
               /\ exc' = exc
          ELSE IF made # <<>>
          THEN /\ result' = AnConstructFailed(made)
               /\ pc' = "done"
               /\ exc' = made
          ELSE IF TooShort(resume_len)
          THEN /\ result' = AnTooShort
               /\ pc' = "done"
               /\ exc' = exc
          ELSE /\ pc' = "calling"
               /\ UNCHANGED <<result, exc>>
    /\ UNCHANGED <<flow, api_key, resume_len, jd_len, calls, response_text, parsed,
                   fallback_used, validated>>

\* compare_resume_jd up to the model call
CompareStart ==
    /\ pc = "start"
    /\ flow = "match"
    /\ \E made \in {<<>>} \cup ProviderErrors :
          IF ~api_key
          THEN /\ made = <<>>
               /\ result' = ErrorResponse(<<LitT("Gemini API key is not configured")>>)
               /\ pc' = "done"
               /\ exc' = exc
          ELSE IF TooShort(resume_len)
          THEN /\ made = <<>>
               /\ result' = ErrorResponse(
                      <<LitT("Resume text is too short or couldn't be properly extracted")>>)
               /\ pc' = "done"
               /\ exc' = exc
          ELSE IF TooShort(jd_len)
          THEN /\ made = <<>>
               /\ result' = ErrorResponse(
                      <<LitT("Job description is too short or couldn't be properly extracted")>>)
               /\ pc' = "done"
               /\ exc' = exc
          ELSE IF made # <<>>
          THEN /\ result' = ErrorResponse(<<LitT("Failed to create Gemini model: ")>> \o made)
               /\ pc' = "done"
               /\ exc' = made
          ELSE /\ pc' = "calling"
               /\ UNCHANGED <<result, exc>>
    /\ UNCHANGED <<flow, api_key, resume_len, jd_len, calls, response_text, parsed,
                   fallback_used, validated>>

\* model.generate_content(prompt) raises
GenerateContentRaises ==
    /\ pc = "calling"
    /\ calls' = calls + 1
    /\ \E e \in ProviderErrors : exc' = e
    /\ pc' = "failed"
    /\ UNCHANGED <<flow, api_key, resume_len, jd_len, response_text, parsed, fallback_used,
                   validated, result>>

\* model.generate_content(prompt) returns a response with a text
GenerateContentReturns ==
    /\ pc = "calling"
    /\ calls' = calls + 1
    /\ \E text \in ResponseTexts : response_text' = text
    /\ pc' = "replied"
    /\ UNCHANGED <<flow, api_key, resume_len, jd_len, exc, parsed, fallback_used, validated,
                   result>>

\* analyze_resume from the model call's outcome to its return
AnalyzeFinish ==
    /\ pc \in {"replied", "failed"}
    /\ flow = "analyze"
    /\ IF pc = "failed"
       THEN /\ result' = AnApiError(exc)
            /\ UNCHANGED <<parsed, fallback_used>>
       ELSE \E r \in {AnalyzeReply(response_text)} :
                /\ parsed' = r.loaded
                /\ fallback_used' = r.fallback
                /\ result' = r.result
    /\ pc' = "done"
    /\ UNCHANGED <<flow, api_key, resume_len, jd_len, calls, response_text, exc, validated>>

\* compare_resume_jd from the model call's outcome to its return
CompareFinish ==
    /\ pc \in {"replied", "failed"}
    /\ flow = "match"
    /\ IF pc = "failed"
       THEN /\ result' = ErrorResponse(exc)
            /\ UNCHANGED <<parsed, validated>>
       ELSE \E r \in {CompareReply(response_text)} :
                /\ parsed' = [ok |-> TRUE, v |-> r.parsed]
                /\ validated' = [called |-> TRUE, raised |-> r.validated.raised,
                                 exc |-> r.validated.exc, val |-> r.validated.val]
                /\ result' = r.result
    /\ pc' = "done"
    /\ UNCHANGED <<flow, api_key, resume_len, jd_len, calls, response_text, exc, fallback_used>>

Next ==
    \/ AnalyzeStart
    \/ CompareStart
    \/ GenerateContentRaises
    \/ GenerateContentReturns
    \/ AnalyzeFinish
    \/ CompareFinish

Spec == Init /\ [][Next]_vars

\* validate_result_structure applied to what it returned: parsed holds the
\* argument of this second call, validated its outcome
Revalidate ==
    /\ pc = "done"
    /\ validated.called
    /\ ~validated.raised
    /\ \E again \in {validate_result_structure(PyDict(validated.val))} :
          /\ parsed' = [ok |-> TRUE, v |-> PyDict(validated.val)]
          /\ validated' = [called |-> TRUE, raised |-> again.raised, exc |-> again.exc,
                           val |-> again.val]
    /\ pc' = "revalidated"
    /\ UNCHANGED <<flow, api_key, resume_len, jd_len, calls, response_text, exc,
                   fallback_used, result>>

NextRevalidate ==
    \/ Next
    \/ Revalidate

\* the requests, and the validator run once more on its own results
SpecRevalidate == Init /\ [][NextRevalidate]_vars

(***************************************************************************)
(* Properties                                                              *)
(***************************************************************************)
\* the result carries an error key with a non-empty message
HasError(r) == "error" \in DOMAIN r /\ r["error"].kind = "str" /\ r["error"].text # <<>>

\* the request is over
Returned == pc = "done"

\* generate_content was called and returned a text
Replied == calls = 1 /\ exc = <<>>

\* message ends with tail
EndsWith(message, tail) ==
    /\ Len(message) >= Len(tail)
    /\ SubSeq(message, Len(message) - Len(tail) + 1, Len(message)) = tail

\* the credential is missing or a text of the request has fewer than 50 characters
EarlyFault ==
    \/ ~api_key
    \/ resume_len < 50
    \/ flow = "match" /\ jd_len < 50

\* C1: when the credential is missing or an input text is shorter than 50
\* characters, the request never reaches the model call (the call count stays 0),
\* and the result it returns has a populated error field.
C1_ShortCircuit ==
    EarlyFault =>
        /\ calls = 0
        /\ pc \in {"start", "done"}
        /\ Returned => HasError(result)

\* the match flow returned for a job description of 49 characters
C1_Witness ==
    /\ Returned
    /\ flow = "match"
    /\ api_key
    /\ resume_len = 50
    /\ jd_len = 49
    /\ calls = 0
    /\ HasError(result)

\* C2: whatever text a successful model call returned, the result of the request
\* has no populated error field.
C2_ParseFailuresAbsorbed == Returned /\ Replied => ~HasError(result)

\* analyze_resume got a header line and a numbered line, and returned the error
\* of the unbound name re
C2_Failing ==
    /\ Returned
    /\ flow = "analyze"
    /\ response_text = <<Word("Strengths:"), NL, Num(1), SP, Word("Python")>>
    /\ fallback_used
    /\ result["error"] = PyStr(NameErrorRe)

\* C3: validate_result_structure never raises, whatever value the normalizer
\* handed it, and returns a result holding score, the three lists and
\* category_scores.
C3_ValidatorNeverRaises ==
    validated.called =>
        /\ ~validated.raised
        /\ DOMAIN validated.val = {"score", "category_scores"} \cup ListFields

\* the reply was the JSON array [1, 2] and the validator raised on it
C3_Failing ==
    /\ validated.called
    /\ response_text = <<ListT(2, "int")>>
    /\ parsed.v = PyList(<<PyInt(1), PyInt(2)>>)
    /\ validated.raised
    /\ HasError(result)

\* the model supplied category c with a numeric value
Supplied(c) ==
    /\ parsed.ok
    /\ parsed.v.kind = "dict"
    /\ Get(parsed.v.fields, "category_scores").kind = "dict"
    /\ IsNumber(Get(Get(parsed.v.fields, "category_scores").fields, c))

SourceCategory(c) ==
    IF Get(parsed.v.fields, "category_scores").kind = "dict"
    THEN Get(Get(parsed.v.fields, "category_scores").fields, c)
    ELSE PyNone

\* out is the score the claim gives for source value src
ScoreAsClaimed(src, out) ==
    /\ out.kind = "int"
    /\ out.num >= 0
    /\ out.num <= 100
    /\ src.kind \in {"null", "str", "list", "dict"} => out.num = 0
    /\ (src.kind \in {"int", "float"} /\ src.num < 0) \/ src.kind = "ninf" => out.num = 0
    /\ (src.kind = "int" /\ src.num > 100) \/ (src.kind = "float" /\ src.num > 1000)
          \/ src.kind = "inf" => out.num = 100
    /\ src.kind = "int" /\ src.num >= 0 /\ src.num <= 100 => out.num = src.num
    /\ src.kind = "float" /\ src.num >= 0 /\ src.num <= 1000 => out.num = src.num \div 10

\* C5: on a mapping, validate_result_structure returns a result in which the
\* score and each of the five category scores is an integer in 0..100: 0 for a
\* source below 0, 100 for a source above 100, the integer part of a source in
\* range, 0 for a source that is absent or no number.
C5_ScoresBounded ==
    validated.called /\ parsed.v.kind = "dict" =>
        /\ ~validated.raised
        /\ ScoreAsClaimed(Get(parsed.v.fields, "score"), validated.val["score"])
        /\ validated.val["category_scores"].kind = "dict"
        /\ \A c \in CategoryNames :
              /\ c \in DOMAIN validated.val["category_scores"].fields
              /\ ScoreAsClaimed(SourceCategory(c), validated.val["category_scores"].fields[c])

\* the reply was {"score": Infinity}: the validator raised and the request
\* returned an error result with score 0
C5_Failing ==
    /\ Returned
    /\ response_text = Object(Member("score", <<INF_T>>))
    /\ validated.called
    /\ validated.raised
    /\ result["error"] = Lit("cannot convert float infinity to integer")
    /\ result["score"] = PyInt(0)

\* C6: in every result validate_result_structure returns, each of the three
\* list fields is a list of at most 20 strings: the first 20 elements of the
\* source list in their order, each as str() gives it, or the empty list when
\* the source is absent or no list.
C6_ListsBounded ==
    validated.called /\ ~validated.raised =>
        \A f \in {"matching_skills", "missing_skills", "recommendations"} :
            LET src == Get(parsed.v.fields, f)
                out == validated.val[f]
            IN  /\ out.kind = "list"
                /\ Len(out.items) <= 20
                /\ \A i \in 1..Len(out.items) : out.items[i].kind = "str"
                /\ IF src.kind = "list"
                   THEN /\ Len(out.items) = Min(Len(src.items), 20)
                        /\ \A i \in 1..Len(out.items) : out.items[i] = StrOf(src.items[i])
                   ELSE out.items = <<>>

\* the model supplied 21 matching skills, not all of them strings, and the
\* result holds the first 20
C6_Witness ==
    /\ validated.called
    /\ ~validated.raised
    /\ Get(parsed.v.fields, "matching_skills").kind = "list"
    /\ Len(Get(parsed.v.fields, "matching_skills").items) = 21
    /\ Get(parsed.v.fields, "matching_skills").items[3].kind = "null"
    /\ Len(validated.val["matching_skills"].items) = 20
    /\ validated.val["matching_skills"].items[3] = Lit("None")

\* C7: in every result analyze_resume returns after normalizing a reply, the four
\* list fields are non-empty lists and career_roadmap is a non-empty string.
C7_FieldsNonEmpty ==
    Returned /\ flow = "analyze" /\ Replied =>
        /\ \A f \in AnListFields :
              /\ f \in DOMAIN result
              /\ result[f].kind = "list"
              /\ result[f].items # <<>>
        /\ "career_roadmap" \in DOMAIN result
        /\ result["career_roadmap"].kind = "str"
        /\ result["career_roadmap"].text # <<>>

\* the reply was {}: json.loads accepted it and the list fields came back empty
C7_Failing ==
    /\ Returned
    /\ flow = "analyze"
    /\ response_text = Object(<<>>)
    /\ ~fallback_used
    /\ ~HasError(result)
    /\ \A f \in AnListFields : result[f] = PyList(<<>>)

\* C8: the result of analyze_resume holds raw_analysis, equal to the reply, when
\* the heuristic fallback was used, and holds no raw_analysis when json.loads
\* accepted the candidate.
C8_RawAnalysisIffFallback ==
    Returned /\ flow = "analyze" /\ Replied =>
        IF fallback_used
        THEN "raw_analysis" \in DOMAIN result /\ result["raw_analysis"] = PyStr(response_text)
        ELSE "raw_analysis" \notin DOMAIN result

\* the reply was {"raw_analysis": "text"}: json.loads accepted it and the result
\* holds the key
C8_Failing ==
    /\ Returned
    /\ flow = "analyze"
    /\ response_text = Object(Member("raw_analysis", <<StrT("text")>>))
    /\ ~fallback_used
    /\ "raw_analysis" \in DOMAIN result

\* C9: when GenerativeModel(...) or generate_content raised, the request returns
\* a result whose error field ends with the message raised and whose other
\* fields are all there: in the match flow score 0, three empty lists and five
\* zero category scores; in the analyze flow four lists and a non-empty roadmap.
C9_ProviderFailureResult ==
    exc # <<>> /\ pc # "failed" =>
        /\ Returned
        /\ HasError(result)
        /\ EndsWith(result["error"].text, exc)
        /\ IF flow = "match"
           THEN /\ DOMAIN result =
                      {"error", "score", "matching_skills", "missing_skills",
                       "recommendations", "category_scores"}
                /\ result["score"] = PyInt(0)
                /\ \A f \in {"matching_skills", "missing_skills", "recommendations"} :
                      result[f] = PyList(<<>>)
                /\ result["category_scores"] =
                      PyDict([c \in {"Technical Skills", "Experience", "Education",
                                     "Soft Skills", "Industry Knowledge"} |-> PyInt(0)])
           ELSE /\ DOMAIN result =
                      {"error", "strengths", "areas_of_improvement",
                       "project_recommendations", "career_roadmap", "recommended_courses"}
                /\ \A f \in AnListFields : result[f].kind = "list"
                /\ result["career_roadmap"].kind = "str"
                /\ result["career_roadmap"].text # <<>>

\* generate_content raised in the match flow and the request returned
C9_Witness ==
    /\ Returned
    /\ flow = "match"
    /\ calls = 1
    /\ exc # <<>>
    /\ HasError(result)

\* the JSON objects that are the interior of a json fence of text
FencedObjects(text) ==
    {Loads(Slice(text, i + 1, j - 1)).v :
        <<i, j>> \in {<<i, j>> \in (1..Len(text)) \X (1..Len(text)) :
                        /\ i < j
                        /\ text[i].c = "fj"
                        /\ IsFence(text[j])
                        /\ \A k \in (i + 1)..(j - 1) : ~IsFence(text[k])
                        /\ Loads(Slice(text, i + 1, j - 1)).ok
                        /\ Loads(Slice(text, i + 1, j - 1)).v.kind = "dict"}}

\* C10: when the reply holds a json fence whose interior is a valid JSON object,
\* the normalizer of either flow parses that object, whatever prose stands
\* before and after the fence.
C10_FencedObjectParsed ==
    Returned /\ Replied /\ FencedObjects(response_text) # {} =>
        /\ parsed.ok
        /\ parsed.v \in FencedObjects(response_text)
\* the match flow got the fenced object {} after prose with a score line and an
\* opening brace: the score of the prose is in the result
C10_Failing ==
    /\ Returned
    /\ flow = "match"
    /\ response_text =
          Wrap("fenced", <<Word("Score:"), SP, IntT(85), SP, LB, SP>>, Object(<<>>), <<>>)
    /\ FencedObjects(response_text) = {PyDict(NoFields)}
    /\ parsed.v # PyDict(NoFields)
    /\ result["score"] = PyInt(85)
\* v is a list of strings
IsStringList(v) == v.kind = "list" /\ \A i \in 1..Len(v.items) : v.items[i].kind = "str"

\* v is an analysis result of the target shape
TargetAnalysis(v) ==
    /\ v.kind = "dict"
    /\ DOMAIN v.fields =
          {"strengths", "areas_of_improvement", "project_recommendations", "career_roadmap",
           "recommended_courses"}
    /\ \A f \in DOMAIN v.fields :
          IF f = "career_roadmap" THEN v.fields[f].kind = "str" ELSE IsStringList(v.fields[f])

\* v is an integer score in 0..100
IsScore(v) == v.kind = "int" /\ v.num >= 0 /\ v.num <= 100

\* v is a conformant match result
Conformant(v) ==
    /\ v.kind = "dict"
    /\ DOMAIN v.fields =
          {"score", "matching_skills", "missing_skills", "recommendations", "category_scores"}
    /\ IsScore(v.fields["score"])
    /\ \A f \in {"matching_skills", "missing_skills", "recommendations"} :
          IsStringList(v.fields[f]) /\ Len(v.fields[f].items) <= 20
    /\ v.fields["category_scores"].kind = "dict"
    /\ DOMAIN v.fields["category_scores"].fields =
          {"Technical Skills", "Experience", "Education", "Soft Skills", "Industry Knowledge"}
    /\ \A c \in DOMAIN v.fields["category_scores"].fields :
          IsScore(v.fields["category_scores"].fields[c])

\* C11: a reply that is a JSON object of the target shape comes back from
\* analyze_resume as that object, without the fallback; validate_result_structure
\* returns a conformant match result as it is; and applied to a result of its
\* own it returns that result again.
C11_PassThrough ==
    /\ Returned /\ flow = "analyze" /\ Replied /\ Loads(response_text).ok
          /\ TargetAnalysis(Loads(response_text).v) =>
          /\ ~fallback_used
          /\ result = Loads(response_text).v.fields
    /\ validated.called /\ Conformant(parsed.v) =>
          /\ ~validated.raised
          /\ validated.val = parsed.v.fields
    /\ pc = "revalidated" =>
          /\ ~validated.raised
          /\ validated.val = parsed.v.fields

\* the reply held score 105 and 21 matching skills; the validator made them 100
\* and 20, and run on that result it returned the same
C11_Witness ==
    /\ pc = "revalidated"
    /\ Get(Loads(response_text).v.fields, "score") = PyInt(105)
    /\ Len(Get(Loads(response_text).v.fields, "matching_skills").items) = 21
    /\ parsed.v.fields["score"] = PyInt(100)
    /\ Len(parsed.v.fields["matching_skills"].items) = 20
    /\ validated.val = parsed.v.fields
\* no line of text is a section header
NoHeader(text) ==
    \A i \in 1..Len(SplitLines(text)) : HeaderOf(Strip(SplitLines(text)[i])) = ""

\* analyze_resume returned for a reply that json.loads rejected and that holds
\* no section header
Gibberish == Returned /\ flow = "analyze" /\ Replied /\ ~parsed.ok /\ NoHeader(response_text)

\* every field of the result is its placeholder
AllPlaceholders ==
    /\ result["strengths"] = PyList(<<Lit("Could not extract strengths from analysis")>>)
    /\ result["areas_of_improvement"] =
          PyList(<<Lit("Could not extract areas of improvement from analysis")>>)
    /\ result["project_recommendations"] =
          PyList(<<Lit("Could not extract project recommendations from analysis")>>)
    /\ result["career_roadmap"] = Lit("Could not extract career roadmap from analysis")
    /\ result["recommended_courses"] =
          PyList(<<Lit("Could not extract recommended courses from analysis")>>)

\* the fields of the result are the first five paragraphs of the reply, the
\* fourth being the roadmap, which gets its placeholder when it is empty
FirstFiveParagraphs ==
    \E par \in {SplitParagraphs(response_text)} :
        /\ result["strengths"] = PyList(<<PyStr(par[1])>>)
        /\ result["areas_of_improvement"] = PyList(<<PyStr(par[2])>>)
        /\ result["project_recommendations"] = PyList(<<PyStr(par[3])>>)
        /\ result["career_roadmap"] =
              IF par[4] = <<>> THEN Lit("Could not extract career roadmap from analysis")
              ELSE PyStr(par[4])
        /\ result["recommended_courses"] = PyList(<<PyStr(par[5])>>)

\* C12 as stated: for a reply that is no JSON and holds no section header, every
\* field of the result of analyze_resume is its placeholder, however many
\* paragraphs the reply has.
C12_AlwaysPlaceholders == Gibberish => AllPlaceholders

\* C12 amended: for such a reply the result is fully shaped, without an error and
\* with raw_analysis; every field is its placeholder when the reply has fewer
\* than five blank-line separated paragraphs, and with five or more the fields
\* are the first five paragraphs.
C12_PlaceholdersBelowFive ==
    Gibberish =>
        /\ ~HasError(result)
        /\ DOMAIN result =
              {"strengths", "areas_of_improvement", "project_recommendations",
               "career_roadmap", "recommended_courses", "raw_analysis"}
        /\ result["raw_analysis"] = PyStr(response_text)
        /\ IF Len(SplitParagraphs(response_text)) < 5
           THEN AllPlaceholders
           ELSE FirstFiveParagraphs

\* a reply of four paragraphs of words came back as placeholders
C12_Witness ==
    /\ Gibberish
    /\ response_text = JoinWith([i \in 1..4 |-> ParagraphOf("words", i)], <<NL, NL>>)
    /\ AllPlaceholders
\* the scan of the lines as C13 words it: res maps each section to what the
\* lines after its header gave it, cur is the section of the last header
RECURSIVE ClaimedScan(_, _, _)
ClaimedScan(lines, cur, res) ==
    IF lines = <<>> THEN res
    ELSE LET line == Strip(Head(lines))
         IN  IF line = <<>> THEN ClaimedScan(Tail(lines), cur, res)
             ELSE IF HeaderOf(line) # "" THEN ClaimedScan(Tail(lines), HeaderOf(line), res)
             ELSE IF cur \in AnListFields /\ Head(line).c \in {"bul", "num"}
             THEN ClaimedScan(Tail(lines), cur,
                              [res EXCEPT ![cur] = Append(@, PyStr(Strip(Tail(line))))])
             ELSE IF cur = "career_roadmap" /\ Head(line).c \notin {"bul", "num"}
             THEN ClaimedScan(Tail(lines), cur, [res EXCEPT ![cur] = @ \o line \o <<NL>>])
             ELSE ClaimedScan(Tail(lines), cur, res)

\* what C13 says the sections of text hold
Claimed(text) ==
    ClaimedScan(SplitLines(text), "", [k \in AnListFields \cup {"career_roadmap"} |-> <<>>])

\* C13: when analyze_resume fell back to the line scan, every bulleted and every
\* numbered line after a section header is, without its marker and in order, in
\* the list of that section, every plain line after the roadmap header is in
\* career_roadmap, lines before the first header are ignored, and raw_analysis
\* holds the reply.
C13_SectionLinesCollected ==
    Returned /\ flow = "analyze" /\ Replied /\ fallback_used =>
        \A k \in AnListFields \cup {"career_roadmap"} :
            Claimed(response_text)[k] # <<>> =>
                /\ ~HasError(result)
                /\ "raw_analysis" \in DOMAIN result
                /\ result["raw_analysis"] = PyStr(response_text)
                /\ result[k] = IF k = "career_roadmap"
                               THEN PyStr(Claimed(response_text)[k])
                               ELSE PyList(Claimed(response_text)[k])

\* a plain line after the roadmap header ended the request with the error of
\* the name re
C13_Failing ==
    /\ Returned
    /\ flow = "analyze"
    /\ response_text = <<Word("## Career Roadmap"), NL, Word("Python")>>
    /\ Claimed(response_text)["career_roadmap"] = <<Word("Python"), NL>>
    /\ result["error"] = PyStr(NameErrorRe)
    /\ result["career_roadmap"] =
          PyStr(<<LitT("Error occurred during analysis: ")>> \o NameErrorRe)

\* the example of C13: a bulleted line after the header of strengths
C13_ExampleHolds ==
    /\ Returned
    /\ flow = "analyze"
    /\ response_text = <<Word("Strengths:"), NL, Bul("- "), Word("Python")>>
    /\ result["strengths"] = PyList(<<PyStr(<<Word("Python")>>)>>)
    /\ result["raw_analysis"] = PyStr(response_text)
\* text holds no fence
NoFence(text) == \A k \in 1..Len(text) : ~IsFence(text[k])

\* the stripped text does not both start with an opening brace and end with a
\* closing one
NotBraceToBrace(text) ==
    ~ /\ Strip(text) # <<>>
      /\ Head(Strip(text)).c = "lb"
      /\ Strip(text)[Len(Strip(text))].c = "rb"

\* s holds no brace
BraceFree(s) == \A k \in 1..Len(s) : s[k].c \notin {"lb", "rb"}

\* the places <<i, j>> of text from a brace to a brace that are a valid JSON
\* object; what stands before i and after j is the prose
ObjectsInProse(text) ==
    {ij \in (1..Len(text)) \X (1..Len(text)) :
        /\ ij[1] < ij[2]
        /\ text[ij[1]].c = "lb"
        /\ text[ij[2]].c = "rb"
        /\ Loads(Slice(text, ij[1], ij[2])).ok
        /\ Loads(Slice(text, ij[1], ij[2])).v.kind = "dict"}

\* the normalizer of the flow parsed the object at ij and no fallback ran
ParsedTo(ij) ==
    /\ parsed.ok
    /\ parsed.v = Loads(Slice(response_text, ij[1], ij[2])).v
    /\ flow = "analyze" => ~fallback_used

====
